---------------------------- MODULE Spec2Model ----------------------------
(***************************************************************************)
(* MU Foods API (src/main.py, src/schemas.py): the beverage listing, the   *)
(* contact intake, the seed endpoint and the diagnostics endpoint, over a  *)
(* document store with the collections "beverage" and "contactinquiry".    *)
(*                                                                         *)
(* Text that the code searches or validates (name, flavor, description,    *)
(* q, email) is a sequence of one-character strings; text that is only     *)
(* compared for equality (tags, messages) is a TLA+ string.                *)
(* Optional[T] is a sequence of length 0 (None) or 1 (the value).          *)
(***************************************************************************)
EXTENDS Integers, Sequences, FiniteSets, TLC

(* ------------------------------ bounds -------------------------------- *)

\* Worker threads that each handle one POST /api/beverages/seed request.
NumProcs == 2
\* Contact inquiries the store accepts before the model stops submitting.
MaxInquiries == 2

Procs == 1..NumProcs

(* ----------------------------- Optional -------------------------------- *)

None == <<>>
Some(v) == <<v>>
IsNone(o) == o = <<>>
Val(o) == o[1]

\* Python truthiness of an Optional[str]: None and the empty string are false.
Truthy(o, empty) == ~IsNone(o) /\ Val(o) # empty

(* --------------------- text and regular expressions -------------------- *)

Uppers == <<"A","B","C","D","E","F","G","H","I","J","K","L","M",
            "N","O","P","Q","R","S","T","U","V","W","X","Y","Z">>
Lowers == <<"a","b","c","d","e","f","g","h","i","j","k","l","m",
            "n","o","p","q","r","s","t","u","v","w","x","y","z">>

\* Case folding of one character ("$options": "i").
Lower(c) ==
    IF \E i \in 1..Len(Uppers) : Uppers[i] = c
    THEN Lowers[CHOOSE i \in 1..Len(Uppers) : Uppers[i] = c]
    ELSE c

\* The quantifiers of the pattern language that the model's inputs use.
Quantifiers == {"+", "*", "?"}

\* One pattern atom against one character: "." is any character, any other
\* atom is that character, compared without case.
AtomMatches(a, c) == a = "." \/ Lower(a) = Lower(c)

\* Whether pattern p, from its atom at i, matches a prefix of s[j..].
RECURSIVE MatchHere(_, _, _, _)
MatchHere(p, i, s, j) ==
    IF i > Len(p) THEN TRUE
    ELSE
      LET a == p[i]
          quant == IF i + 1 <= Len(p) /\ p[i + 1] \in Quantifiers
                   THEN p[i + 1] ELSE "1"
          rest == Len(s) - j + 1
          Run(k) == \A m \in 0..(k - 1) : AtomMatches(a, s[j + m])
      IN  CASE quant = "1" ->
                 /\ j <= Len(s)
                 /\ AtomMatches(a, s[j])
                 /\ MatchHere(p, i + 1, s, j + 1)
            [] quant = "?" ->
                 \E k \in 0..(IF rest >= 1 THEN 1 ELSE 0) :
                     Run(k) /\ MatchHere(p, i + 2, s, j + k)
            [] quant = "*" ->
                 \E k \in 0..rest : Run(k) /\ MatchHere(p, i + 2, s, j + k)
            [] quant = "+" ->
                 \E k \in 1..rest : Run(k) /\ MatchHere(p, i + 2, s, j + k)

\* {"$regex": p, "$options": "i"} on a string field: an unanchored,
\* case-insensitive search of the regular expression p in s.
RegexSearch(p, s) == \E j \in 1..(Len(s) + 1) : MatchHere(p, 1, s, j)

\* q as literal text: a case-insensitive substring of s.
ContainsIgnoreCase(q, s) ==
    \E j \in 1..(Len(s) - Len(q) + 1) :
        \A m \in 1..Len(q) : Lower(s[j + m - 1]) = Lower(q[m])

(* ------------------------------ documents ------------------------------ *)

\* The hardcoded sample of seed_beverages, before the timestamps are added.
\* Prices are in hundredths (3.99 is 399).
SampleBase ==
   <<
      [ name |-> <<"C","i","t","r","u","s"," ","Z","i","n","g">>,
        flavor |-> <<"L","e","m","o","n"," ","+"," ","L","i","m","e">>,
        description |-> Some(<<"A"," ","b","r","i","g","h","t",","," ","z","e","s","t","y"," ",
          "s","q","u","a","s","h"," ","m","a","d","e"," ","f","r","o","m",
          " ","s","u","n","-","r","i","p","e","n","e","d"," ","l","e","m",
          "o","n","s"," ","a","n","d"," ","l","i","m","e","s",".">>),
        price |-> 399, size_ml |-> 500,
        image_url |-> Some("https://images.unsplash.com/photo-1524594227084-6df73d85d2f9?w=800&q=80"),
        tags |-> <<"citrus", "refreshing", "vegan">>,
        in_stock |-> TRUE ],
      [ name |-> <<"M","a","n","g","o"," ","B","l","i","s","s">>,
        flavor |-> <<"A","l","p","h","o","n","s","o"," ","M","a","n","g","o">>,
        description |-> Some(<<"T","h","i","c","k",","," ","l","u","s","c","i","o","u","s"," ",
          "m","a","n","g","o"," ","s","q","u","a","s","h"," ","w","i","t",
          "h"," ","n","o"," ","a","d","d","e","d"," ","p","r","e","s","e",
          "r","v","a","t","i","v","e","s",".">>),
        price |-> 449, size_ml |-> 500,
        image_url |-> Some("https://images.unsplash.com/photo-1547514701-42782101795e?w=800&q=80"),
        tags |-> <<"tropical", "best-seller">>,
        in_stock |-> TRUE ],
      [ name |-> <<"G","u","a","v","a"," ","G","l","o","w">>,
        flavor |-> <<"P","i","n","k"," ","G","u","a","v","a">>,
        description |-> Some(<<"D","e","l","i","c","a","t","e","l","y"," ","s","w","e","e","t",
          " ","g","u","a","v","a"," ","s","q","u","a","s","h"," ","p","e",
          "r","f","e","c","t"," ","f","o","r"," ","s","u","m","m","e","r",
          " ","c","o","o","l","e","r","s",".">>),
        price |-> 429, size_ml |-> 500,
        image_url |-> Some("https://images.unsplash.com/photo-1604908554027-6e2ce8f94bd7?w=800&q=80"),
        tags |-> <<"tropical", "vitamin-c">>,
        in_stock |-> TRUE ],
      [ name |-> <<"O","r","a","n","g","e"," ","O","r","c","h","a","r","d">>,
        flavor |-> <<"V","a","l","e","n","c","i","a"," ","O","r","a","n","g","e">>,
        description |-> Some(<<"C","l","a","s","s","i","c"," ","o","r","a","n","g","e"," ","s",
          "q","u","a","s","h"," ","w","i","t","h"," ","a"," ","c","l","e",
          "a","n",","," ","f","r","e","s","h"," ","f","i","n","i","s","h",
          ".">>),
        price |-> 379, size_ml |-> 500,
        image_url |-> Some("https://images.unsplash.com/photo-1557800636-894a64c1696f?w=800&q=80"),
        tags |-> <<"citrus", "family">>,
        in_stock |-> TRUE ]
   >>

\* datetime.now(timezone.utc). The reading is kept abstract: the stamps are
\* stored and never compared.
UtcNow == "now"

\* "for s in sample: s[created_at] = now; s[updated_at] = now"
Sample(now) ==
    [i \in 1..Len(SampleBase) |->
        ("created_at" :> now) @@ ("updated_at" :> now) @@ SampleBase[i]]

\* Beverages that a store can hold before this process first runs: one that is
\* out of stock although it carries tags and the word "mango", and one in
\* stock that has no description.
StaleDoc ==
    [ _id |-> 1,
      name |-> <<"O","l","d"," ","M","a","n","g","o">>,
      flavor |-> <<"M","a","n","g","o">>,
      description |-> Some(<<"m","a","n","g","o",".">>),
      price |-> 100, size_ml |-> 250, image_url |-> None,
      tags |-> <<"tropical", "citrus">>,
      in_stock |-> FALSE, created_at |-> "then", updated_at |-> "then" ]
PlainDoc ==
    [ _id |-> 2,
      name |-> <<"T","a","n","g">>,
      flavor |-> <<"M","a","n","g","o">>,
      description |-> None,
      price |-> 250, size_ml |-> 330, image_url |-> None,
      tags |-> <<"citrus">>,
      in_stock |-> TRUE, created_at |-> "then", updated_at |-> "then" ]

\* The contents the beverage collection can have when the process starts.
InitialCollections == { <<>>, <<StaleDoc, PlainDoc>> }

\* The fields of schemas.Beverage.
BeverageFields ==
    {"name", "flavor", "description", "price", "size_ml", "image_url",
     "tags", "in_stock"}

\* response_model=List[Beverage]: an item is serialized as the fields of
\* Beverage; any other key of the returned dict is left out.
SerializeBeverage(item) ==
    [f \in BeverageFields \cap DOMAIN item |-> item[f]]

\* Faulty variant of PopId: the identifier stays.
PopIdKeeps(item) == item

\* i.pop("_id", None)
PopId(item) == [f \in DOMAIN item \ {"_id"} |-> item[f]]

(* ------------------------------- inputs -------------------------------- *)

\* Values of the query parameter tag: absent, empty, and present.
TagInputs == {None, Some(""), Some("citrus"), Some("Citrus")}

\* Values of the query parameter q: absent, empty, plain words, and text in
\* which ".", "+" occur.
QInputs ==
    {None, Some(<<>>),
     Some(<<"m","a","n","g","o">>),
     Some(<<"a",".","g">>),
     Some(<<"n"," ","+"," ","L">>)}

EmailInputs ==
    { <<"a","@","b",".","c","o">>,
      <<"n","o","t","-","a","n","-","e","m","a","i","l">>,
      <<"a","@","b">> }

\* Request bodies of POST /api/contact, as parsed JSON objects.
ContactBodies ==
    [ name : {Some("Ann")}, email : {Some(e) : e \in EmailInputs},
      phone : {Some("555")}, subject : {Some("Hi")},
      message : {Some("Hello")} ]
    \cup
    [ name : {Some("Ann")}, email : {Some(<<"a","@","b",".","c","o">>)},
      phone : {None}, subject : {None}, message : {Some("Hello")} ]

\* The two environment settings that test_database reads with os.getenv,
\* each set or not.
EnvInputs == [ DATABASE_URL : BOOLEAN, DATABASE_NAME : BOOLEAN ]

(* -------------------------------- state -------------------------------- *)

VARIABLES
    db,              \* the module-level handle imported from database:
                     \* "None" or "Database"
    initial,         \* the beverage collection as the process found it
    storeUp,         \* whether the store answers the handle's calls
    beverage,        \* the "beverage" collection, in the store's natural order
    contactinquiry,  \* the "contactinquiry" collection
    pc,              \* where each seed request stands
    count,           \* seed_beverages' local variable count, per request
    seedLog,         \* the responses of the seed requests, in order of completion
    resp             \* the latest response of the other endpoints

vars == <<db, initial, storeUp, beverage, contactinquiry, pc, count,
          seedLog, resp>>

Init ==
    /\ db \in {"None", "Database"}
    /\ storeUp = TRUE
    /\ beverage \in InitialCollections
    /\ initial = beverage
    /\ contactinquiry = <<>>
    /\ pc = [p \in Procs |-> "idle"]
    /\ count = [p \in Procs |-> 0]
    /\ seedLog = <<>>
    /\ resp = [op |-> "none", status |-> 0]

(* -------------------------- the store adapter -------------------------- *)

\* The store becomes unreachable, or reachable again.
StoreFails ==
    /\ storeUp
    /\ storeUp' = FALSE
    /\ UNCHANGED <<db, initial, beverage, contactinquiry, pc, count,
                   seedLog, resp>>

StoreRecovers ==
    /\ ~storeUp
    /\ storeUp' = TRUE
    /\ UNCHANGED <<db, initial, beverage, contactinquiry, pc, count,
                   seedLog, resp>>

\* The identifier the store assigns to the next document of a collection:
\* one that no document of the collection has.
NewId(collection) == Len(collection) + 1

\* collection.insert_many(docs): every document gets an identifier of its
\* own and is added at the end.
insert_many(collection, docs) ==
    collection \o
    [i \in 1..Len(docs) |-> ("_id" :> (NewId(collection) + i - 1)) @@ docs[i]]

\* The patterns and the texts that a query of the model can bring together,
\* and the outcome of each search, computed once.
Patterns == {Val(q) : q \in QInputs \ {None}}
Texts ==
    LET docs == {SampleBase[i] : i \in 1..Len(SampleBase)} \cup {StaleDoc, PlainDoc}
    IN  {d.name : d \in docs} \cup {d.flavor : d \in docs}
        \cup {Val(d.description) : d \in {e \in docs : ~IsNone(e.description)}}
RegexTable == [p \in Patterns |-> [s \in Texts |-> RegexSearch(p, s)]]

\* Whether document d has a field f holding a string that the regular
\* expression p is found in.
FieldMatchesRegex(d, f, p) ==
    /\ f \in DOMAIN d
    /\ IF f = "description"
       THEN ~IsNone(d[f]) /\ RegexTable[p][Val(d[f])]
       ELSE RegexTable[p][d[f]]

\* Whether document d satisfies the query filter: every key that the filter
\* has (is not None here) must hold. {"tags": {"$in": [t]}} holds when some element of the array
\* tags is t; "$or" holds when one of its three clauses does.
MatchesFilter(d, filter) ==
    /\ IsNone(filter.in_stock) \/
          ("in_stock" \in DOMAIN d /\ d.in_stock = Val(filter.in_stock))
    /\ IsNone(filter.tags) \/
          \E i \in 1..Len(d.tags) :
              \E k \in 1..Len(Val(filter.tags)) : d.tags[i] = Val(filter.tags)[k]
    /\ IsNone(filter.or) \/
          \E k \in 1..Len(Val(filter.or)) :
              FieldMatchesRegex(d, Val(filter.or)[k].field, Val(filter.or)[k].regex)

\* database.get_documents(collection, filter): the documents of the
\* collection that satisfy the filter, in the store's order.
get_documents(collection, filter) ==
    LET Test(d) == MatchesFilter(d, filter)
    IN  SelectSeq(collection, Test)

\* database.create_document(collection, data): the collection with data
\* inserted under a new identifier.
create_document(collection, data) ==
    Append(collection, ("_id" :> NewId(collection)) @@ data)

\* db.list_collection_names(): the collections that hold a document.
list_collection_names ==
    (IF Len(beverage) > 0 THEN <<"beverage">> ELSE <<>>)
    \o (IF Len(contactinquiry) > 0 THEN <<"contactinquiry">> ELSE <<>>)

\* seq[:n]
Take(seq, n) == SubSeq(seq, 1, IF Len(seq) < n THEN Len(seq) ELSE n)

(* ------------------------------- GET / --------------------------------- *)

Root ==
    /\ resp' = [op |-> "root", status |-> 200, name |-> "MU Foods",
                state |-> "ok"]
    /\ UNCHANGED <<db, initial, storeUp, beverage, contactinquiry, pc,
                   count, seedLog>>

(* -------------------------- GET /api/beverages ------------------------- *)

\* Faulty variant of BuildFilter: the filter lacks the in_stock key.
BuildFilterAnyStock(tag, q) ==
    [ in_stock |-> None,
      tags |-> IF Truthy(tag, "") THEN Some(<<Val(tag)>>) ELSE None,
      or |-> IF Truthy(q, <<>>)
             THEN Some(<< [field |-> "name", regex |-> Val(q)],
                          [field |-> "flavor", regex |-> Val(q)],
                          [field |-> "description", regex |-> Val(q)] >>)
             ELSE None ]

\* Faulty variant of BuildFilter: the tag parameter is ignored.
BuildFilterNoTag(tag, q) ==
    [ in_stock |-> Some(TRUE),
      tags |-> None,
      or |-> IF Truthy(q, <<>>)
             THEN Some(<< [field |-> "name", regex |-> Val(q)],
                          [field |-> "flavor", regex |-> Val(q)],
                          [field |-> "description", regex |-> Val(q)] >>)
             ELSE None ]

\* filter_dict of list_beverages.
BuildFilter(tag, q) ==
    [ in_stock |-> Some(TRUE),
      tags |-> IF Truthy(tag, "") THEN Some(<<Val(tag)>>) ELSE None,
      or |-> IF Truthy(q, <<>>)
             THEN Some(<< [field |-> "name", regex |-> Val(q)],
                          [field |-> "flavor", regex |-> Val(q)],
                          [field |-> "description", regex |-> Val(q)] >>)
             ELSE None ]

\* The list that list_beverages returns when the store answers.
list_beverages(tag, q) ==
    LET items == get_documents(beverage, BuildFilter(tag, q))
    IN  [i \in 1..Len(items) |-> PopId(items[i])]

\* The response of GET /api/beverages. Status 0 stands for an outcome that
\* neither main.py nor its description settles: what get_documents does
\* when there is no handle.
ListResponse(tag, q) ==
    IF db = "None"
    THEN [op |-> "list", tag |-> tag, q |-> q, status |-> 0,
          items |-> <<>>, body |-> <<>>]
    ELSE IF ~storeUp
    THEN [op |-> "list", tag |-> tag, q |-> q, status |-> 500,
          items |-> <<>>, body |-> <<>>]
    ELSE LET items == list_beverages(tag, q)
         IN  [op |-> "list", tag |-> tag, q |-> q, status |-> 200,
              items |-> items,
              body |-> [i \in 1..Len(items) |-> SerializeBeverage(items[i])]]

ListBeverages ==
    /\ \E tag \in TagInputs, q \in QInputs : resp' = ListResponse(tag, q)
    /\ UNCHANGED <<db, initial, storeUp, beverage, contactinquiry, pc,
                   count, seedLog>>

(* --------------------------- POST /api/contact ------------------------- *)

\* CreateInquiry: name, email, subject and message are required strings.
CreateInquiryValid(body) ==
    /\ ~IsNone(body.name)
    /\ ~IsNone(body.email)
    /\ ~IsNone(body.subject)
    /\ ~IsNone(body.message)

\* EmailStr: one "@" with text before it, and after it a domain that has a
\* "." between two non-empty parts.
IsValidEmail(e) ==
    /\ Cardinality({i \in 1..Len(e) : e[i] = "@"}) = 1
    /\ LET at == CHOOSE i \in 1..Len(e) : e[i] = "@"
       IN  /\ at > 1
           /\ \E i \in (at + 2)..(Len(e) - 1) : e[i] = "."
           /\ e[at + 1] # "."

\* ContactInquiry(**inquiry.model_dump()) succeeds.
ContactInquiryValid(body) == IsValidEmail(Val(body.email))

\* ci.model_dump()
ContactDocument(body) ==
    [ name |-> Val(body.name), email |-> Val(body.email),
      phone |-> body.phone, subject |-> Val(body.subject),
      message |-> Val(body.message) ]

\* Faulty variant of StoreInquiry: an inquiry that the collection already
\* holds is not stored again.
StoreInquiryOnce(body) ==
    IF \E i \in 1..Len(contactinquiry) :
           [f \in DOMAIN contactinquiry[i] \ {"_id"} |-> contactinquiry[i][f]]
               = ContactDocument(body)
    THEN contactinquiry
    ELSE create_document(contactinquiry, ContactDocument(body))

\* _id = create_document("contactinquiry", ci): the collection afterwards.
StoreInquiry(body) == create_document(contactinquiry, ContactDocument(body))

\* The status of POST /api/contact: 422 when the body is no CreateInquiry;
\* 500 when an exception leaves the handler (ContactInquiry's validation
\* error, or a failure of the store); 0 when there is no handle (see
\* ListResponse); 200 otherwise.
ContactStatus(body) ==
    IF ~CreateInquiryValid(body) THEN 422
    ELSE IF ~ContactInquiryValid(body) THEN 500
    ELSE IF db = "None" THEN 0
    ELSE IF ~storeUp THEN 500
    ELSE 200

SubmitContact ==
    /\ Len(contactinquiry) < MaxInquiries
    /\ \E body \in ContactBodies :
         LET status == ContactStatus(body)
         IN  IF status = 200
             THEN /\ contactinquiry' = StoreInquiry(body)
                  /\ resp' = [op |-> "contact", body |-> body, status |-> 200,
                              ok |-> TRUE,
                              id |-> ToString(NewId(contactinquiry))]
             ELSE /\ UNCHANGED contactinquiry
                  /\ resp' = [op |-> "contact", body |-> body,
                              status |-> status]
    /\ UNCHANGED <<db, initial, storeUp, beverage, pc, count, seedLog>>

(* ------------------------ POST /api/beverages/seed --------------------- *)

\* Faulty variant of StoreUnavailable: the handle is not checked.
StoreUnavailableUnchecked == FALSE

\* "if db is None"
StoreUnavailable == db = "None"

\* Faulty variant of AlreadySeeded: the comparison is turned around.
AlreadySeededReversed(c) == c < 0

\* "if count > 0"
AlreadySeeded(c) == c > 0

SeedResponse(p, status, message, c) ==
    [proc |-> p, status |-> status, message |-> message, count |-> c]

\* seed_beverages up to its first return, or to the point where it holds the
\* count and has not yet inserted.
SeedCount(p) ==
    /\ pc[p] = "idle"
    /\ IF StoreUnavailable
       THEN /\ seedLog' = Append(seedLog,
                    SeedResponse(p, 500, "Database not configured", 0))
            /\ pc' = [pc EXCEPT ![p] = "done"]
            /\ UNCHANGED count
       ELSE IF ~storeUp
       THEN /\ seedLog' = Append(seedLog,
                    SeedResponse(p, 500, "Internal Server Error", 0))
            /\ pc' = [pc EXCEPT ![p] = "done"]
            /\ UNCHANGED count
       ELSE /\ count' = [count EXCEPT ![p] = Len(beverage)]
            /\ IF AlreadySeeded(Len(beverage))
               THEN /\ seedLog' = Append(seedLog,
                            SeedResponse(p, 200, "Beverages already seeded",
                                         Len(beverage)))
                    /\ pc' = [pc EXCEPT ![p] = "done"]
               ELSE /\ pc' = [pc EXCEPT ![p] = "counted"]
                    /\ UNCHANGED seedLog
    /\ UNCHANGED <<db, initial, storeUp, beverage, contactinquiry, resp>>

\* The rest of seed_beverages: the sample is stamped with the current time
\* and inserted.
SeedInsert(p) ==
    /\ pc[p] = "counted"
    /\ pc' = [pc EXCEPT ![p] = "done"]
    /\ IF ~storeUp
       THEN /\ seedLog' = Append(seedLog,
                    SeedResponse(p, 500, "Internal Server Error", 0))
            /\ UNCHANGED beverage
       ELSE LET sample == Sample(UtcNow)
            IN  /\ beverage' = insert_many(beverage, sample)
                /\ seedLog' = Append(seedLog,
                        SeedResponse(p, 200, "Seeded beverages", Len(sample)))
    /\ UNCHANGED <<db, initial, storeUp, contactinquiry, count, resp>>

(* ------------------------------ GET /test ------------------------------ *)

\* Faulty variant of TestResponse: a failure of list_collection_names is not
\* caught and leaves the handler.
TestResponseUncaught(env) ==
    IF db # "None" /\ ~storeUp
    THEN [ op |-> "test", status |-> 500, backend |-> "Running",
           database |-> "", connection_status |-> "", collections |-> <<>>,
           database_url |-> "", database_name |-> "" ]
    ELSE [ op |-> "test", status |-> 200, backend |-> "Running",
           database |->
               IF db = "None" THEN "Available but not initialized"
               ELSE "Connected & Working",
           connection_status |->
               IF db = "None" THEN "Not Connected" ELSE "Connected",
           collections |->
               IF db # "None" THEN Take(list_collection_names, 10) ELSE <<>>,
           database_url |-> IF env.DATABASE_URL THEN "Set" ELSE "Not Set",
           database_name |-> IF env.DATABASE_NAME THEN "Set" ELSE "Not Set" ]

\* The response of test_database under the environment env.
TestResponse(env) ==
    [ op |-> "test", status |-> 200, backend |-> "Running",
      database |->
          IF db = "None" THEN "Available but not initialized"
          ELSE IF storeUp THEN "Connected & Working"
          ELSE "Connected but Error",
      connection_status |-> IF db = "None" THEN "Not Connected" ELSE "Connected",
      collections |->
          IF db # "None" /\ storeUp THEN Take(list_collection_names, 10)
          ELSE <<>>,
      database_url |-> IF env.DATABASE_URL THEN "Set" ELSE "Not Set",
      database_name |-> IF env.DATABASE_NAME THEN "Set" ELSE "Not Set" ]

TestDatabase ==
    /\ \E env \in EnvInputs : resp' = TestResponse(env)
    /\ UNCHANGED <<db, initial, storeUp, beverage, contactinquiry, pc,
                   count, seedLog>>

(* ---------------------------- specifications --------------------------- *)

\* Requests are handled by concurrent workers: the steps of different seed
\* requests interleave with each other and with every other request.
Next ==
    \/ Root
    \/ ListBeverages
    \/ SubmitContact
    \/ \E p \in Procs : SeedCount(p)
    \/ \E p \in Procs : SeedInsert(p)
    \/ TestDatabase
    \/ StoreFails
    \/ StoreRecovers

Spec == Init /\ [][Next]_vars

\* A seed request is taken up only when no other seed request is under way.
SeedCountAlone(p) ==
    /\ \A o \in Procs : pc[o] # "counted"
    /\ SeedCount(p)

NextSeq ==
    \/ Root
    \/ ListBeverages
    \/ SubmitContact
    \/ \E p \in Procs : SeedCountAlone(p)
    \/ \E p \in Procs : SeedInsert(p)
    \/ TestDatabase
    \/ StoreFails
    \/ StoreRecovers

SpecSeq == Init /\ [][NextSeq]_vars

(* ------------------------------ properties ----------------------------- *)

\* The successful seed responses, in order of completion.
SeedSuccesses ==
    LET Ok(r) == r.status = 200
    IN  SelectSeq(seedLog, Ok)

\* The stored documents without their identifiers.
Contents(collection) == [i \in 1..Len(collection) |-> PopId(collection[i])]

\* C1: with seed requests handled one after another on a collection that was
\* empty at the start, the first seed request that the store serves inserts
\* exactly the 4 sample beverages and reports count 4, every later one
\* inserts nothing and reports the count it found, 4; until one is served
\* the collection stays empty.
C1_SeedTwice ==
    initial = <<>> =>
        LET ok == SeedSuccesses
        IN  /\ Len(ok) = 0 => beverage = <<>>
            /\ Len(ok) >= 1 =>
                 /\ ok[1].message = "Seeded beverages"
                 /\ ok[1].count = 4
                 /\ Len(beverage) = 4
                 /\ Contents(beverage) = Sample(UtcNow)
            /\ \A k \in 2..Len(ok) :
                 /\ ok[k].message = "Beverages already seeded"
                 /\ ok[k].count = 4

\* C1 witness: two seed requests were served on an initially empty
\* collection, the second after the first.
C1_Witness ==
    /\ initial = <<>>
    /\ Len(seedLog) = 2
    /\ seedLog[1].status = 200 /\ seedLog[1].message = "Seeded beverages"
    /\ seedLog[2].status = 200
    /\ seedLog[2].message = "Beverages already seeded"
    /\ Len(beverage) = 4

\* A step in which POST /api/contact answers.
ContactStep == resp' # resp /\ resp'.op = "contact"

\* C2: a contact inquiry whose email is no valid address is answered with a
\* client error (4xx) and no inquiry is stored. (Stated for a store that
\* answers, so that the store has no part in the status.)
C2_InvalidEmailClientError ==
    [][ (ContactStep /\ CreateInquiryValid(resp'.body)
            /\ ~IsValidEmail(Val(resp'.body.email))
            /\ db = "Database" /\ storeUp)
        => (/\ resp'.status >= 400 /\ resp'.status <= 499
            /\ contactinquiry' = contactinquiry) ]_vars

\* C3: every item of every listing response is in stock, whatever the store
\* holds and whatever tag and q are; an item that the store holds as out of
\* stock is in no response.
C3_OnlyInStock ==
    resp.op = "list" =>
        /\ \A i \in 1..Len(resp.items) :
             "in_stock" \in DOMAIN resp.items[i] /\ resp.items[i].in_stock = TRUE
        /\ \A i \in 1..Len(resp.body) : resp.body[i].in_stock = TRUE
        /\ Len(resp.body) = Len(resp.items)

\* C3 witness: a listing returned an item while the store held an
\* out-of-stock beverage that carries the requested tag.
C3_Witness ==
    /\ resp.op = "list" /\ resp.status = 200
    /\ resp.tag = Some("citrus")
    /\ Len(resp.items) >= 1
    /\ \E i \in 1..Len(beverage) :
         /\ ~beverage[i].in_stock
         /\ \E k \in 1..Len(beverage[i].tags) : beverage[i].tags[k] = "citrus"

\* A step in which GET /api/beverages answers.
ListStep == resp' # resp /\ resp'.op = "list"

\* The outcome of every search of the model with the pattern read as
\* literal text, computed once.
SubstringTable ==
    [p \in Patterns |-> [s \in Texts |-> ContainsIgnoreCase(p, s)]]

\* The texts of the three searched fields of document d.
SearchedTexts(d) ==
    {d.name, d.flavor}
    \cup (IF IsNone(d.description) THEN {} ELSE {Val(d.description)})

\* Whether tag t is an element of d's tags.
HasTag(d, t) == \E i \in 1..Len(d.tags) : d.tags[i] = t

\* The stored beverages, without identifiers, that Keep holds for.
Kept(Keep(_)) == Contents(SelectSeq(beverage, Keep))

\* C4 as stated: the listing is exactly the stored beverages that are in
\* stock, carry the tag when tag is supplied, and match the q group when q
\* is supplied.
C4_SuppliedMeansFiltered ==
    [][ (ListStep /\ resp'.status = 200) =>
          LET Keep(d) ==
                /\ d.in_stock = TRUE
                /\ ~IsNone(resp'.tag) => HasTag(d, Val(resp'.tag))
                /\ ~IsNone(resp'.q) =>
                      \E s \in SearchedTexts(d) : RegexTable[Val(resp'.q)][s]
          IN  resp'.items = Kept(Keep) ]_vars

\* C4 as amended: the listing is exactly the stored beverages that are in
\* stock, carry the tag when tag is supplied and not empty, and match the q
\* group when q is supplied and not empty.
C4_NonEmptyMeansFiltered ==
    [][ (ListStep /\ resp'.status = 200) =>
          LET Keep(d) ==
                /\ d.in_stock = TRUE
                /\ Truthy(resp'.tag, "") => HasTag(d, Val(resp'.tag))
                /\ Truthy(resp'.q, <<>>) =>
                      \E s \in SearchedTexts(d) : RegexTable[Val(resp'.q)][s]
          IN  resp'.items = Kept(Keep) ]_vars

\* C4 witness: a listing with both parameters returned some of the stored
\* beverages and left others out.
C4_Witness ==
    /\ resp.op = "list" /\ resp.status = 200
    /\ Truthy(resp.tag, "") /\ Truthy(resp.q, <<>>)
    /\ Len(resp.items) >= 1
    /\ Len(resp.items) < Len(beverage)

\* C5: with q supplied (and no tag), the listing is exactly the in-stock
\* beverages that have q, as literal text and without regard to case, inside
\* their name, flavor or description.
C5_LiteralSubstring ==
    [][ (ListStep /\ resp'.status = 200 /\ IsNone(resp'.tag)
            /\ ~IsNone(resp'.q)) =>
          LET Keep(d) ==
                /\ d.in_stock = TRUE
                /\ \E s \in SearchedTexts(d) : SubstringTable[Val(resp'.q)][s]
          IN  resp'.items = Kept(Keep) ]_vars

\* A step in which GET /test answers.
TestStep == resp' # resp /\ resp'.op = "test"

\* C6: /test answers with status 200 in every condition of the store, and
\* its "database" field tells the condition: no handle, a handle whose
\* list_collection_names fails, a handle that works.
C6_TestNeverFails ==
    [][ TestStep =>
          /\ resp'.status = 200
          /\ resp'.database =
                (IF db = "None" THEN "Available but not initialized"
                 ELSE IF ~storeUp THEN "Connected but Error"
                 ELSE "Connected & Working") ]_vars

\* C6 witness: /test answered while the handle's calls failed.
C6_Witness ==
    /\ resp.op = "test" /\ resp.status = 200
    /\ resp.database = "Connected but Error"

C8_NoInternalId ==
    resp.op = "list" =>
        /\ \A i \in 1..Len(resp.items) : "_id" \notin DOMAIN resp.items[i]
        /\ \A i \in 1..Len(resp.body) : "_id" \notin DOMAIN resp.body[i]

\* C8 witness: a listing returned stored documents, each of which has an
\* identifier in the store.
C8_Witness ==
    /\ resp.op = "list" /\ resp.status = 200
    /\ Len(resp.items) >= 1
    /\ \A i \in 1..Len(beverage) : "_id" \in DOMAIN beverage[i]

\* C9: a contact submission that succeeds adds exactly one record, the
\* submitted inquiry under a new identifier, at the end of contactinquiry,
\* whether or not an equal inquiry is already there; it answers ok with
\* that identifier, and changes nothing else.
C9_OneInsertOnly ==
    [][ (ContactStep /\ resp'.status = 200) =>
          /\ Len(contactinquiry') = Len(contactinquiry) + 1
          /\ SubSeq(contactinquiry', 1, Len(contactinquiry)) = contactinquiry
          /\ LET new == contactinquiry'[Len(contactinquiry')]
             IN  /\ PopId(new) = ContactDocument(resp'.body)
                 /\ \A i \in 1..Len(contactinquiry) :
                        contactinquiry[i]._id # new._id
                 /\ resp'.id = ToString(new._id)
          /\ resp'.ok = TRUE
          /\ UNCHANGED <<db, initial, storeUp, beverage, pc, count, seedLog>>
      ]_vars

\* C9 witness: two equal inquiries were submitted and both are stored.
C9_Witness ==
    /\ Len(contactinquiry) = 2
    /\ PopId(contactinquiry[1]) = PopId(contactinquiry[2])
    /\ resp.op = "contact" /\ resp.status = 200

\* C10: however concurrent seed requests interleave on a collection that
\* was empty at the start, the collection never holds more than the 4 sample
\* beverages and at most one request inserts.
C10_ConcurrentSeedOnce ==
    initial = <<>> =>
        /\ Len(beverage) <= 4
        /\ Cardinality({k \in 1..Len(seedLog) :
                           seedLog[k].message = "Seeded beverages"}) <= 1

====
